---- MODULE Spec2Model ----
(***************************************************************************)
(* Ten-minute secret: the django_secrets application.                      *)
(*                                                                         *)
(* A secret is encrypted under a key derived from a passphrase and a      *)
(* per-record salt, stored with a random UUID, handed out as a URL-safe   *)
(* token of that UUID, and deleted by the first successful reveal.         *)
(*                                                                         *)
(* State: the database table of Secret rows, the wall clock, and the      *)
(* requests in flight (each a POST to SecretUpdateView at some step of    *)
(* get_object -> form.is_valid -> form_valid).                             *)
(*                                                                         *)
(* Idealisations, stated once:                                             *)
(*  - PBKDF2 is injective: a key is the pair (passphrase, salt).           *)
(*  - Fernet authenticates ideally: a token opens under exactly the key   *)
(*    it was made with.                                                    *)
(*  - uuid4 and os.urandom return values that never occurred before, and  *)
(*    a client can only name the token of a record that exists or         *)
(*    existed, a well-formed token of no record, or a malformed string.   *)
(*  - The POST rate limit (django_ratelimit) is not modelled: requests    *)
(*    are taken to arrive below it.                                        *)
(***************************************************************************)
EXTENDS Integers, Sequences, FiniteSets, TLC

VARIABLES
    now,        \* wall clock, in minutes (timezone.now())
    storage,    \* the rows of the Secret table
    usedIds,    \* every id uuid4 has returned so far
    usedSalts,  \* every salt os.urandom has returned so far
    req,        \* the reveal requests, by request slot
    dIn,        \* laboratory: the arguments of one call of a function
    dOut        \* laboratory: what the call returned or raised

vars == <<now, storage, usedIds, usedSalts, req, dIn, dOut>>

----------------------------------------------------------------------------
(* Bounds of the model and constants of the program *)

\* The clock stops advancing here (minutes since the model's epoch).
MaxNow == 15

\* The clock is observed every so many minutes.
TickMinutes == 5

\* No secret is created after this minute.
MaxCreateAt == 5

\* datetime.timedelta(minutes=10)
ExpireMinutes == 10

\* PBKDF2 iteration count
Iterations == 600000

\* os.urandom(16)
SaltLen == 16

\* The length uuid.UUID(bytes=...) demands
UuidLen == 16

----------------------------------------------------------------------------
(* Identifier codec: utils.encode_id / utils.decode_id *)

\* The standard base64 alphabet; urlsafe_b64encode writes "-" and "_"
\* for "+" and "/".
StdAlphabet ==
    <<"A", "B", "C", "D", "E", "F", "G", "H", "I", "J", "K", "L", "M", "N",
    "O", "P", "Q", "R", "S", "T", "U", "V", "W", "X", "Y", "Z", "a", "b",
    "c", "d", "e", "f", "g", "h", "i", "j", "k", "l", "m", "n", "o", "p",
    "q", "r", "s", "t", "u", "v", "w", "x", "y", "z", "0", "1", "2", "3",
    "4", "5", "6", "7", "8", "9", "+", "/">>

\* A character outside ASCII is written as this one symbol.
NonAscii == "U+00E9"

\* binascii's decoding table: the value of each alphabet character.
CharIndex ==
    [c \in {StdAlphabet[i] : i \in 1..Len(StdAlphabet)} |->
        (CHOOSE i \in 1..Len(StdAlphabet) : StdAlphabet[i] = c) - 1]

IndexOf(c) == IF c \in DOMAIN CharIndex THEN CharIndex[c] ELSE 64

\* bytes.translate of urlsafe_b64encode / urlsafe_b64decode
UrlSafeChar(c) == IF c = "+" THEN "-" ELSE IF c = "/" THEN "_" ELSE c
StdChar(c) == IF c = "-" THEN "+" ELSE IF c = "_" THEN "/" ELSE c

Sextet(n) == StdAlphabet[n + 1]

RECURSIVE B2A(_)
\* binascii.b2a_base64 over a byte sequence, with "=" padding.
B2A(bytes) ==
    IF Len(bytes) = 0 THEN <<>>
    ELSE IF Len(bytes) = 1 THEN
        <<Sextet(bytes[1] \div 4), Sextet((bytes[1] % 4) * 16), "=", "=">>
    ELSE IF Len(bytes) = 2 THEN
        <<Sextet(bytes[1] \div 4),
          Sextet((bytes[1] % 4) * 16 + bytes[2] \div 16),
          Sextet((bytes[2] % 16) * 4), "=">>
    ELSE
        <<Sextet(bytes[1] \div 4),
          Sextet((bytes[1] % 4) * 16 + bytes[2] \div 16),
          Sextet((bytes[2] % 16) * 4 + bytes[3] \div 64),
          Sextet(bytes[3] % 64)>> \o B2A(SubSeq(bytes, 4, Len(bytes)))

\* encode_id with the padding left on
KeepPad(s) == s

RECURSIVE RStripPad(_)
\* bytes.rstrip(b'=')
RStripPad(s) ==
    IF Len(s) > 0 /\ s[Len(s)] = "=" THEN RStripPad(SubSeq(s, 1, Len(s) - 1))
    ELSE s

\* A decoding or parsing that failed.
BadBytes == [ok |-> FALSE, bytes |-> <<>>]

\* The digits of str(UUID) and the digits int(hex, 16) reads.
HexDigits ==
    <<"0", "1", "2", "3", "4", "5", "6", "7", "8", "9", "a", "b", "c", "d",
    "e", "f">>
HexValue ==
    [c \in {HexDigits[i] : i \in 1..16} |->
        (CHOOSE i \in 1..16 : HexDigits[i] = c) - 1]
    @@ ("A" :> 10) @@ ("B" :> 11) @@ ("C" :> 12) @@ ("D" :> 13)
    @@ ("E" :> 14) @@ ("F" :> 15)

\* str(uuid): 32 lower-case hex digits in groups of 8-4-4-4-12.
UuidStr(bytes) ==
    LET hex == [i \in 1..(2 * Len(bytes)) |->
                   IF i % 2 = 1
                   THEN HexDigits[(bytes[(i + 1) \div 2] \div 16) + 1]
                   ELSE HexDigits[(bytes[i \div 2] % 16) + 1]]
    IN  SubSeq(hex, 1, 8) \o <<"-">> \o SubSeq(hex, 9, 12) \o <<"-">>
        \o SubSeq(hex, 13, 16) \o <<"-">> \o SubSeq(hex, 17, 20) \o <<"-">>
        \o SubSeq(hex, 21, Len(hex))

\* uuid.UUID(hex): hyphens dropped, then exactly 32 hex digits; anything
\* else is a ValueError.
UUID(hex) ==
    LET digits == SelectSeq(hex, LAMBDA c : c # "-") IN
    IF Len(digits) # 2 * UuidLen
       \/ \E i \in 1..Len(digits) : digits[i] \notin DOMAIN HexValue
    THEN BadBytes
    ELSE [ok |-> TRUE,
          bytes |-> [i \in 1..UuidLen |->
                        HexValue[digits[2 * i - 1]] * 16
                        + HexValue[digits[2 * i]]]]

\* encode_id: the 16 bytes of the UUID, URL-safe base64, padding stripped.
encode_id(uuid_id) ==
    LET std == RStripPad(B2A(uuid_id))
    IN  [i \in 1..Len(std) |-> UrlSafeChar(std[i])]

\* encode_id of a str: uuid.UUID(uuid_id) first (lines 17-18). The str is
\* taken to be a UUID's string form, as uuid.UUID raises otherwise.
encode_id_str(uuid_id) == encode_id(UUID(uuid_id).bytes)

RECURSIVE A2B(_, _, _, _, _, _)
\* binascii.a2b_base64 in its default, non-strict mode: characters outside
\* the alphabet are skipped, a complete pad sequence ends the parse, and a
\* quad left incomplete at the end of the input is an error.
A2B(s, i, quad, left, pads, out) ==
    IF i > Len(s) THEN
        IF quad # 0 THEN BadBytes ELSE [ok |-> TRUE, bytes |-> out]
    ELSE IF s[i] = "=" THEN
        IF quad >= 2 /\ quad + pads + 1 >= 4
        THEN [ok |-> TRUE, bytes |-> out]
        ELSE A2B(s, i + 1, quad, left, IF quad >= 2 THEN pads + 1 ELSE pads, out)
    ELSE LET v == IndexOf(s[i]) IN
        IF v >= 64 THEN A2B(s, i + 1, quad, left, pads, out)
        ELSE IF quad = 0 THEN A2B(s, i + 1, 1, v, 0, out)
        ELSE IF quad = 1 THEN
            A2B(s, i + 1, 2, v % 16, 0, Append(out, left * 4 + v \div 16))
        ELSE IF quad = 2 THEN
            A2B(s, i + 1, 3, v % 4, 0, Append(out, left * 16 + v \div 4))
        ELSE A2B(s, i + 1, 0, 0, 0, Append(out, left * 64 + v))

\* base64.urlsafe_b64decode of a str: ASCII only, "-_" read as "+/".
urlsafe_b64decode(s) ==
    IF \E i \in 1..Len(s) : s[i] = NonAscii THEN BadBytes
    ELSE A2B([i \in 1..Len(s) |-> StdChar(s[i])], 1, 0, 0, 0, <<>>)

\* The result of decode_id when the token names no UUID.
None == <<>>

\* decode_id with the padding left off
PaddedNot(encoded_id) == encoded_id

\* decode_id, lines 28-30: the padding rstrip removed is put back.
Padded(encoded_id) ==
    LET padding == 4 - (Len(encoded_id) % 4)
    IN  IF padding # 4
        THEN encoded_id \o [i \in 1..padding |-> "="]
        ELSE encoded_id

\* The try block of decode_id: the UUID's bytes, or the exception raised
\* by urlsafe_b64decode (ValueError for a non-ASCII str, binascii.Error
\* for bad base64) or by uuid.UUID(bytes=...) (ValueError unless 16 bytes).
TryDecode(padded) ==
    LET r == urlsafe_b64decode(padded) IN
    IF \E i \in 1..Len(padded) : padded[i] = NonAscii
    THEN [exc |-> "ValueError", value |-> <<>>]
    ELSE IF ~r.ok THEN [exc |-> "binascii.Error", value |-> <<>>]
    ELSE IF Len(r.bytes) # UuidLen THEN [exc |-> "ValueError", value |-> <<>>]
    ELSE [exc |-> "", value |-> r.bytes]

\* An except clause that names binascii.Error alone
CaughtBinasciiOnly(exc) == exc = "binascii.Error"

\* except (ValueError, Exception): every exception class is caught.
Caught(exc) == exc \in {"ValueError", "binascii.Error"}

\* The exception that leaves decode_id ("" when none does).
decode_id_raises(encoded_id) ==
    LET t == TryDecode(Padded(encoded_id))
    IN  IF t.exc # "" /\ ~Caught(t.exc) THEN t.exc ELSE ""

\* decode_id: restore the padding, decode, and build the UUID; every
\* exception becomes None.
decode_id(encoded_id) ==
    LET t == TryDecode(Padded(encoded_id))
    IN  IF t.exc = "" THEN t.value ELSE None

----------------------------------------------------------------------------
(* Key derivation and the cipher: utils.passphrase_to_key / encrypt /
   decrypt *)

Passphrases == {"x", "y"}

\* A str is a sequence of runs, each a unit of Unicode code points repeated
\* a number of times; bytes are runs of byte values in the same way. The
\* empty str is the empty sequence.
Run(unit, times) == [unit |-> unit, times |-> times]
Str(unit) == <<Run(unit, 1)>>
EmptyStr == <<>>

RECURSIVE RunsLen(_)
\* len() of a str or of bytes
RunsLen(runs) ==
    IF Len(runs) = 0 THEN 0
    ELSE Len(runs[1].unit) * runs[1].times + RunsLen(Tail(runs))

\* The secrets shared in the lifecycle: "hi" and "e-acute".
Plaintexts == {Str(<<104, 105>>), Str(<<233>>)}

\* The UUIDs uuid4 and the salts os.urandom may return, as byte strings.
RandomBytes(n, k) == [i \in 1..n |-> (k * 37 + i * 11) % 256]
Ids == {RandomBytes(UuidLen, 1), RandomBytes(UuidLen, 2)}
Salts == {RandomBytes(SaltLen, 3), RandomBytes(SaltLen, 4)}
\* A well-formed UUID that uuid4 never returns: the token of no record.
GhostId == RandomBytes(UuidLen, 5)
IVs == {"iv1"}

\* The place of a key where none was derived.
NoKey == [pass |-> "", salt |-> <<>>, iterations |-> 0]

\* Key derivation salted with the process-wide SECRET_KEY in place of the
\* record's salt
passphrase_to_key_secret_key(passphrase, salt) ==
    [pass |-> passphrase, salt |-> dOut.secret_key, iterations |-> Iterations]

\* Key derivation with one salt shared by all records
passphrase_to_key_shared_salt(passphrase, salt) ==
    [pass |-> passphrase, salt |-> <<>>, iterations |-> Iterations]

\* PBKDF2-HMAC-SHA256 of (passphrase, salt), urlsafe-base64 encoded.
passphrase_to_key(passphrase, salt) ==
    [pass |-> passphrase, salt |-> salt, iterations |-> Iterations]

\* The UTF-8 bytes of one code point (a Unicode scalar value).
Utf8Char(cp) ==
    IF cp < 128 THEN <<cp>>
    ELSE IF cp < 2048 THEN <<192 + (cp \div 64), 128 + (cp % 64)>>
    ELSE IF cp < 65536
    THEN <<224 + (cp \div 4096), 128 + ((cp \div 64) % 64), 128 + (cp % 64)>>
    ELSE <<240 + (cp \div 262144), 128 + ((cp \div 4096) % 64),
           128 + ((cp \div 64) % 64), 128 + (cp % 64)>>

RECURSIVE Utf8Unit(_)
Utf8Unit(unit) ==
    IF Len(unit) = 0 THEN <<>>
    ELSE Utf8Char(unit[1]) \o Utf8Unit(Tail(unit))

\* str.encode('utf-8'), run by run.
Utf8Encode(text) ==
    [i \in 1..Len(text) |-> Run(Utf8Unit(text[i].unit), text[i].times)]

\* A continuation byte 10xxxxxx at position i
IsCont(bytes, i) == i <= Len(bytes) /\ bytes[i] >= 128 /\ bytes[i] < 192

RECURSIVE Utf8DecodeUnit(_, _, _)
\* bytes.decode('utf-8') of one unit from position i: the code points, or
\* failure on a stray, truncated, overlong, surrogate or out-of-range
\* sequence.
Utf8DecodeUnit(bytes, i, out) ==
    IF i > Len(bytes) THEN [ok |-> TRUE, unit |-> out]
    ELSE LET b == bytes[i] IN
        IF b < 128 THEN Utf8DecodeUnit(bytes, i + 1, Append(out, b))
        ELSE IF b >= 194 /\ b < 224 /\ IsCont(bytes, i + 1)
        THEN Utf8DecodeUnit(bytes, i + 2,
                 Append(out, (b - 192) * 64 + (bytes[i + 1] - 128)))
        ELSE IF b >= 224 /\ b < 240 /\ IsCont(bytes, i + 1)
                /\ IsCont(bytes, i + 2)
        THEN LET cp == (b - 224) * 4096 + (bytes[i + 1] - 128) * 64
                       + (bytes[i + 2] - 128)
             IN  IF cp < 2048 \/ (cp >= 55296 /\ cp < 57344)
                 THEN [ok |-> FALSE, unit |-> <<>>]
                 ELSE Utf8DecodeUnit(bytes, i + 3, Append(out, cp))
        ELSE IF b >= 240 /\ b < 245 /\ IsCont(bytes, i + 1)
                /\ IsCont(bytes, i + 2) /\ IsCont(bytes, i + 3)
        THEN LET cp == (b - 240) * 262144 + (bytes[i + 1] - 128) * 4096
                       + (bytes[i + 2] - 128) * 64 + (bytes[i + 3] - 128)
             IN  IF cp < 65536 \/ cp > 1114111
                 THEN [ok |-> FALSE, unit |-> <<>>]
                 ELSE Utf8DecodeUnit(bytes, i + 4, Append(out, cp))
        ELSE [ok |-> FALSE, unit |-> <<>>]

\* bytes.decode('latin-1'): one code point per byte
Latin1Decode(bytes) == [ok |-> TRUE, text |-> bytes]

\* bytes.decode('utf-8'), run by run (the runs Utf8Encode writes end on
\* character boundaries); any undecodable unit is a UnicodeDecodeError.
Utf8Decode(bytes) ==
    IF \E i \in 1..Len(bytes) : ~Utf8DecodeUnit(bytes[i].unit, 1, <<>>).ok
    THEN [ok |-> FALSE, text |-> EmptyStr]
    ELSE [ok |-> TRUE,
          text |-> [i \in 1..Len(bytes) |->
                       Run(Utf8DecodeUnit(bytes[i].unit, 1, <<>>).unit,
                           bytes[i].times)]]

\* Bytes that are not UTF-8.
NonUtf8Bytes == <<Run(<<255>>, 1)>>

\* The length of base64 text over n bytes, and of a Fernet token: version,
\* timestamp, IV, AES-CBC blocks of the padded plaintext, HMAC; urlsafe
\* base64 of the whole.
B64Len(n) == 4 * ((n + 2) \div 3)
FernetLen(plain) == B64Len(1 + 8 + 16 + 16 * ((RunsLen(plain) \div 16) + 1) + 32)

\* Fernet(key).encrypt(plain): the token remembers the key that signed it.
FernetEncrypt(key, iv, plain) ==
    [frame |-> TRUE, key |-> key, iv |-> iv, plain |-> plain]
\* Bytes that are no Fernet token at all.
GarbageBytes ==
    [frame |-> FALSE, key |-> NoKey, iv |-> "",
     plain |-> NonUtf8Bytes]

\* base64.b64encode(...).decode('ascii'): what the TextField stores.
B64Text(bytes) ==
    [ascii |-> TRUE, b64 |-> TRUE, bytes |-> bytes,
     len |-> B64Len(FernetLen(bytes.plain))]
\* Stored text with a character outside ASCII, and ASCII text whose
\* base64 padding is wrong.
NonAsciiText ==
    [ascii |-> FALSE, b64 |-> FALSE, bytes |-> GarbageBytes, len |-> 3]
BadPaddingText ==
    [ascii |-> TRUE, b64 |-> FALSE, bytes |-> GarbageBytes, len |-> 3]

\* encrypt(data, passphrase, salt); iv is Fernet's os.urandom(16).
encrypt(data, passphrase, salt, iv) ==
    B64Text(FernetEncrypt(passphrase_to_key(passphrase, salt), iv,
                          Utf8Encode(data)))

\* What a call gave back: a str, or the exception it raised.
Returned(text) == [exc |-> "", text |-> text, type |-> "str"]
Raised(exc) == [exc |-> exc, text |-> EmptyStr, type |-> ""]

\* decrypt with the key check left out (Fernet opening under any key)
decrypt_any_key(token, passphrase, salt) ==
    IF ~token.ascii THEN Raised("UnicodeEncodeError")
    ELSE IF ~token.b64 THEN Raised("binascii.Error")
    ELSE IF ~token.bytes.frame THEN Raised("InvalidToken")
    ELSE IF ~Utf8Decode(token.bytes.plain).ok
         THEN Raised("UnicodeDecodeError")
    ELSE Returned(Utf8Decode(token.bytes.plain).text)

\* decrypt(token, passphrase, salt): the text, or the exception raised.
decrypt(token, passphrase, salt) ==
    LET key == passphrase_to_key(passphrase, salt) IN
    IF ~token.ascii THEN Raised("UnicodeEncodeError")
    ELSE IF ~token.b64 THEN Raised("binascii.Error")
    ELSE IF ~token.bytes.frame \/ token.bytes.key # key
         THEN Raised("InvalidToken")
    ELSE IF ~Utf8Decode(token.bytes.plain).ok
         THEN Raised("UnicodeDecodeError")
    ELSE Returned(Utf8Decode(token.bytes.plain).text)

\* clean_passphrase without its except clause: InvalidToken propagates.
clean_passphrase_uncaught(instance, passphrase) ==
    LET d == decrypt(instance.data, passphrase, instance.salt) IN
    IF d.exc # ""
    THEN [valid |-> FALSE, error |-> d.exc, decrypted_data |-> EmptyStr]
    ELSE [valid |-> TRUE, error |-> "", decrypted_data |-> d.text]

\* SecretUpdateForm.clean_passphrase on an instance: decrypt with the
\* instance's salt; InvalidToken becomes the form's ValidationError, any
\* other exception leaves the form and the view.
clean_passphrase(instance, passphrase) ==
    LET d == decrypt(instance.data, passphrase, instance.salt) IN
    IF d.exc = "InvalidToken"
    THEN [valid |-> FALSE, error |-> "ValidationError", decrypted_data |-> EmptyStr]
    ELSE IF d.exc # ""
    THEN [valid |-> FALSE, error |-> d.exc, decrypted_data |-> EmptyStr]
    ELSE [valid |-> TRUE, error |-> "", decrypted_data |-> d.text]

----------------------------------------------------------------------------
(* The create form: SecretCreateForm's fields and clean_data *)

\* The code points str.strip() removes.
Whitespace ==
    {9, 10, 11, 12, 13, 28, 29, 30, 31, 32, 133, 160, 5760, 8232, 8233,
     8239, 8287, 12288} \cup 8192..8202

AllWhitespace(unit) == \A i \in 1..Len(unit) : unit[i] \in Whitespace

RECURSIVE LStrip(_)
\* str.lstrip(): leading whitespace removed, run by run.
LStrip(text) ==
    IF Len(text) = 0 THEN text
    ELSE LET r == text[1] IN
        IF r.times = 0 \/ AllWhitespace(r.unit) THEN LStrip(Tail(text))
        ELSE IF r.unit[1] \in Whitespace
        THEN LET k == CHOOSE k \in 1..Len(r.unit) :
                          /\ r.unit[k] \notin Whitespace
                          /\ \A j \in 1..(k - 1) : r.unit[j] \in Whitespace
                 head == Run(SubSeq(r.unit, k, Len(r.unit)), 1)
             IN  IF r.times = 1 THEN <<head>> \o Tail(text)
                 ELSE <<head, Run(r.unit, r.times - 1)>> \o Tail(text)
        ELSE text

RECURSIVE RStrip(_)
\* str.rstrip(): trailing whitespace removed, run by run.
RStrip(text) ==
    IF Len(text) = 0 THEN text
    ELSE LET n == Len(text)
             r == text[n]
             front == SubSeq(text, 1, n - 1)
         IN
        IF r.times = 0 \/ AllWhitespace(r.unit) THEN RStrip(front)
        ELSE IF r.unit[Len(r.unit)] \in Whitespace
        THEN LET k == CHOOSE k \in 1..Len(r.unit) :
                          /\ r.unit[k] \notin Whitespace
                          /\ \A j \in (k + 1)..Len(r.unit) :
                                 r.unit[j] \in Whitespace
                 last == Run(SubSeq(r.unit, 1, k), 1)
             IN  IF r.times = 1 THEN front \o <<last>>
                 ELSE front \o <<Run(r.unit, r.times - 1), last>>
        ELSE text

\* forms.CharField.to_python with strip=True, the default of the field a
\* ModelForm builds for a TextField and of forms.CharField.
strip(text) == RStrip(LStrip(text))

\* ProhibitNullCharactersValidator of forms.CharField
HasNull(text) ==
    \E i \in 1..Len(text) : \E j \in 1..Len(text[i].unit) :
        text[i].unit[j] = 0

\* max_size = 50 * 1024
max_size == 50 * 1024

\* clean_data: the data passes when its UTF-8 encoding is at most max_size
\* bytes long; otherwise a ValidationError.
clean_data(data) == RunsLen(Utf8Encode(data)) <= max_size

\* SecretCreateForm.is_valid(): each field is stripped and required; data
\* must hold no null character and pass clean_data. The passphrases tried
\* have no surrounding whitespace, so stripping leaves them as they are.
SecretCreateForm_is_valid(data, passphrase) ==
    LET cleaned == strip(data)
        data_ok == /\ cleaned # EmptyStr
                   /\ ~HasNull(cleaned)
                   /\ clean_data(cleaned)
        passphrase_ok == passphrase # ""
    IN  [valid |-> data_ok /\ passphrase_ok,
         errors |-> (IF data_ok THEN {} ELSE {"data"})
                    \cup (IF passphrase_ok THEN {} ELSE {"passphrase"}),
         data |-> cleaned,
         passphrase |-> passphrase]

----------------------------------------------------------------------------
(* The Secret table and its managers *)

\* A row whose created_at is not the time of the insert
Row_epoch(id, data, salt, created_at) ==
    [id |-> id, data |-> data, salt |-> salt, created_at |-> 0,
     views |-> 0]

\* A row of the Secret model. views is the column AvailableManager filters
\* on; nothing in django_secrets writes it after the insert.
Row(id, data, salt, created_at) ==
    [id |-> id, data |-> data, salt |-> salt, created_at |-> created_at,
     views |-> 0]

\* The lookup with the comparison reversed (created_at__lte)
get_queryset_lte ==
    {row \in storage :
        row.created_at <= now - ExpireMinutes /\ row.views = 0}

\* The lookup with no expiry filter (Secret.objects)
get_queryset_all == storage

\* The lookup filtering on views only
get_queryset_unviewed == {row \in storage : row.views = 0}

\* AvailableManager.get_queryset: created_at__gte = now - 10 minutes,
\* views__exact = 0.
get_queryset ==
    {row \in storage :
        row.created_at >= now - ExpireMinutes /\ row.views = 0}

\* Secret.expire_at
expire_at(row) == row.created_at + ExpireMinutes

\* KnuthIdMixin.get_object: the row, or the Http404 it raises.
get_object(oid) ==
    LET pk == decode_id(oid) IN
    IF pk = None
    THEN [obj |-> {}, http404 |-> "Invalid secret ID"]
    ELSE LET found == {row \in get_queryset : row.id = pk} IN
         IF found = {}
         THEN [obj |-> {}, http404 |-> "No secret found matching the query"]
         ELSE [obj |-> found, http404 |-> ""]

\* A delete that removes nothing
delete_nothing(obj) == storage

\* The precursor's form_valid: count the view and save the row in place.
save_viewed(obj) ==
    {row \in storage : row.id # obj.id}
        \cup {[obj EXCEPT !.views = obj.views + 1]}

\* A delete with no WHERE clause
delete_every(obj) == {}

\* An update in place of the delete: the row is kept with a new created_at.
delete_as_refresh(obj) ==
    {row \in storage : row.id # obj.id}
        \cup {[obj EXCEPT !.created_at = now]}

\* Model.delete(): DELETE ... WHERE id = pk; a row already gone is no error.
delete(obj) == {row \in storage : row.id # obj.id}

\* form_valid without the re-check
never_expired_at_reveal(obj) == FALSE

\* A re-check that counts the last instant of the window as expired
expired_at_reveal_lte(obj) == obj.created_at <= now - ExpireMinutes

\* form_valid's expiry re-check: created_at < now - 10 minutes.
expired_at_reveal(obj) == obj.created_at < now - ExpireMinutes

----------------------------------------------------------------------------
(* Requests *)

Reqs == {"r1", "r2"}

NoResponse == [status |-> 0, page |-> "", text |-> EmptyStr, http404 |-> ""]
Http404(msg) == [status |-> 404, page |-> "", text |-> EmptyStr, http404 |-> msg]
\* form_invalid: the passphrase form again, with its error.
FormError == [status |-> 200, page |-> "secret_update", text |-> EmptyStr,
              http404 |-> ""]
\* render(..., 'secret_detail.html', {"object": self.object})
Detail(decrypted_data) == [status |-> 200, page |-> "secret_detail",
                           text |-> decrypted_data, http404 |-> ""]
\* An exception nothing catches: Django's 500 handler.
ServerError == [status |-> 500, page |-> "", text |-> EmptyStr, http404 |-> ""]

Idle == [pc |-> "idle", oid |-> <<>>, passphrase |-> "", obj |-> {},
         decrypted_data |-> EmptyStr, response |-> NoResponse]

\* The strings a client may put in the URL: the token of a generated id,
\* the token of no record, and a string that is no token.
MalformedOids == {<<"i", "n", "v", "a", "l", "i", "d", "-", "o", "i", "d">>}
\* Secret.oid of each id
Token == [id \in Ids \cup {GhostId} |-> encode_id(id)]
Oids == {Token[id] : id \in usedIds \cup {GhostId}} \cup MalformedOids

\* No request is being served (a slot showing its response is free).
NoneInFlight == \A r \in Reqs : req[r].pc \in {"idle", "done"}

\* What the outcomes are called in the lifecycle's terms.
IsPlaintext(q) == q.response.page = "secret_detail"
IsWrongPassphrase(q) == q.response.page = "secret_update"
IsNotFound(q) == q.response.status = 404

\* The row a finished or running request looked up.
TheObj(q) == CHOOSE row \in q.obj : TRUE

----------------------------------------------------------------------------
(* Initial state *)

LabIdleIn == [token |-> NonAsciiText, passphrase |-> "", salt |-> <<>>]
LabIdleOut == [called |-> FALSE, result |-> Raised(""), form |-> ""]

Init ==
    /\ now = 0
    /\ storage = {}
    /\ usedIds = {}
    /\ usedSalts = {}
    /\ req = [r \in Reqs |-> Idle]
    /\ dIn = LabIdleIn
    /\ dOut = LabIdleOut

----------------------------------------------------------------------------
(* Operations *)

Lab == <<dIn, dOut>>

\* An id generator that may return an id it returned before
uuid4_reuse == Ids

\* uuid.uuid4(): an id that never occurred before.
uuid4 == Ids \ usedIds

\* One salt for every record (the precursor's shared application secret)
generate_salt_shared == {RandomBytes(SaltLen, 3)}

\* generate_salt: os.urandom(16), a value that never occurred before.
generate_salt == Salts \ usedSalts

\* The clock advances.
Tick ==
    /\ now + TickMinutes <= MaxNow
    /\ now' = now + TickMinutes
    /\ UNCHANGED <<storage, usedIds, usedSalts, req, Lab>>

\* SecretCreateView with a valid form: SecretCreateForm.save gives the
\* instance a fresh uuid4 id and a fresh salt, encrypts the data under
\* (passphrase, salt) and inserts the row; created_at is auto_now_add.
SecretCreateForm_save(data, passphrase) ==
    \E id \in uuid4, salt \in generate_salt, iv \in IVs :
        /\ now <= MaxCreateAt
        /\ storage' = storage \cup
               {Row(id, encrypt(data, passphrase, salt, iv), salt, now)}
        /\ usedIds' = usedIds \cup {id}
        /\ usedSalts' = usedSalts \cup {salt}
        /\ UNCHANGED <<now, req, Lab>>

Create == \E data \in Plaintexts, passphrase \in Passphrases :
              SecretCreateForm_save(data, passphrase)

\* POST /<oid>/ arrives: BaseUpdateView.post calls get_object.
post_get_object(r, oid, passphrase) ==
    /\ req[r].pc = "idle"
    /\ LET got == get_object(oid)
           q == [Idle EXCEPT !.oid = oid, !.passphrase = passphrase]
       IN  IF got.obj = {}
           THEN req' = [req EXCEPT ![r] =
                    [q EXCEPT !.pc = "done",
                              !.response = Http404(got.http404)]]
           ELSE req' = [req EXCEPT ![r] =
                    [q EXCEPT !.pc = "form", !.obj = got.obj]]
    /\ UNCHANGED <<now, storage, usedIds, usedSalts, Lab>>

\* form.is_valid(): clean_passphrase decrypts the instance's data and
\* keeps the text on the instance; a ValidationError re-renders the form.
form_is_valid(r) ==
    /\ req[r].pc = "form"
    /\ LET obj == TheObj(req[r])
           c == clean_passphrase(obj, req[r].passphrase)
       IN  IF c.valid
           THEN req' = [req EXCEPT ![r].pc = "valid",
                           ![r].decrypted_data = c.decrypted_data]
           ELSE IF c.error = "ValidationError"
           THEN req' = [req EXCEPT ![r].pc = "done",
                                   ![r].response = FormError]
           ELSE req' = [req EXCEPT ![r].pc = "done",
                                   ![r].response = ServerError]
    /\ UNCHANGED <<now, storage, usedIds, usedSalts, Lab>>

\* form_valid, first half: re-check the expiry against the clock, and
\* delete the row in either case; an expired row ends the request in 404.
form_valid_delete(r) ==
    /\ req[r].pc = "valid"
    /\ LET obj == TheObj(req[r]) IN
        /\ storage' = delete(obj)
        /\ IF expired_at_reveal(obj)
           THEN req' = [req EXCEPT ![r].pc = "done",
                    ![r].response = Http404("This secret has expired")]
           ELSE req' = [req EXCEPT ![r].pc = "render"]
    /\ UNCHANGED <<now, usedIds, usedSalts, Lab>>

\* form_valid, second half: render secret_detail.html with the text.
form_valid_render(r) ==
    /\ req[r].pc = "render"
    /\ req' = [req EXCEPT ![r].pc = "done",
                          ![r].response = Detail(req[r].decrypted_data)]
    /\ UNCHANGED <<now, storage, usedIds, usedSalts, Lab>>

\* The slot forgets the response it showed and is free again.
finish(r) ==
    /\ req[r].pc = "done"
    /\ req' = [req EXCEPT ![r] = Idle]
    /\ UNCHANGED <<now, storage, usedIds, usedSalts, Lab>>

Reveal(r) ==
    \E oid \in Oids, passphrase \in Passphrases :
        post_get_object(r, oid, passphrase)

Step(r) ==
    \/ form_is_valid(r)
    \/ form_valid_delete(r)
    \/ form_valid_render(r)
    \/ finish(r)

\* Requests are served concurrently: their steps interleave freely.
Next ==
    \/ Tick
    \/ Create
    \/ \E r \in Reqs : Reveal(r)
    \/ \E r \in Reqs : Step(r)

Spec == Init /\ [][Next]_vars

\* Requests are served one at a time: an operation starts only when no
\* other is in flight. The clock still advances inside a request.
NextSeq ==
    \/ Tick
    \/ NoneInFlight /\ Create
    \/ NoneInFlight /\ \E r \in Reqs : Reveal(r)
    \/ \E r \in Reqs : Step(r)

SpecSeq == Init /\ [][NextSeq]_vars

----------------------------------------------------------------------------
(* The decrypt laboratory: one call of decrypt, and of the form's
   clean_passphrase, on any stored text *)

LabKeys == {passphrase_to_key(p, s) : p \in Passphrases, s \in Salts}
LabPlains ==
    {Utf8Encode(t) : t \in Plaintexts \cup {EmptyStr}} \cup {NonUtf8Bytes}
LabTokens ==
    {NonAsciiText, BadPaddingText, B64Text(GarbageBytes)}
        \cup {B64Text(FernetEncrypt(k, iv, p)) :
                  k \in LabKeys, iv \in IVs, p \in LabPlains}

InitLab ==
    /\ now = 0
    /\ storage = {}
    /\ usedIds = {}
    /\ usedSalts = {}
    /\ req = [r \in Reqs |-> Idle]
    /\ dIn \in [token : LabTokens, passphrase : Passphrases, salt : Salts]
    /\ dOut = LabIdleOut

LabCall ==
    /\ ~dOut.called
    /\ LET instance == Row(GhostId, dIn.token, dIn.salt, now)
           c == clean_passphrase(instance, dIn.passphrase)
       IN  dOut' = [called |-> TRUE,
                    result |-> decrypt(dIn.token, dIn.passphrase, dIn.salt),
                    form |-> IF c.valid THEN "valid"
                             ELSE IF c.error = "ValidationError"
                             THEN "WrongPassphrase"
                             ELSE "ServerError"]
    /\ UNCHANGED <<now, storage, usedIds, usedSalts, req, dIn>>

SpecLab == InitLab /\ [][LabCall]_vars

----------------------------------------------------------------------------
(* The cipher laboratory: encrypt(data, passphrase, salt), then
   decrypt(token, passphrase2, salt2), with the process's settings free to
   change between the two calls *)

\* The length of the long text of test_encrypt_very_long_data.
LongLen == 10000

\* "", "hi", e-acute (2 bytes), two CJK characters (3 bytes each), an
\* emoji (4 bytes), a mix, and "a" * 10000.
CipherTexts ==
    {EmptyStr, Str(<<104, 105>>), Str(<<233>>), Str(<<20320, 22909>>),
     Str(<<127757>>), Str(<<72, 105, 32, 19990, 30028, 32, 127757>>),
     <<Run(<<97>>, LongLen)>>}

SecretKeys == {"SECRET_KEY-1", "SECRET_KEY-2"}

CipherIdleOut ==
    [step |-> 0, secret_key |-> "SECRET_KEY-1", token |-> NonAsciiText,
     key1 |-> NoKey, key2 |-> NoKey, result |-> Raised("")]

InitCipher ==
    /\ now = 0
    /\ storage = {}
    /\ usedIds = {}
    /\ usedSalts = {}
    /\ req = [r \in Reqs |-> Idle]
    /\ dIn \in [data : CipherTexts, passphrase : Passphrases, salt : Salts,
                passphrase2 : Passphrases, salt2 : Salts]
    /\ dOut = CipherIdleOut

\* token = encrypt(data, passphrase, salt)
CipherEncrypt ==
    /\ dOut.step = 0
    /\ \E iv \in IVs :
        dOut' = [dOut EXCEPT
                    !.step = 1,
                    !.token = encrypt(dIn.data, dIn.passphrase, dIn.salt, iv),
                    !.key1 = passphrase_to_key(dIn.passphrase, dIn.salt)]
    /\ UNCHANGED <<now, storage, usedIds, usedSalts, req, dIn>>

\* The settings of the process change (another deployment, another run).
CipherSettings ==
    /\ dOut.step = 1
    /\ \E k \in SecretKeys \ {dOut.secret_key} :
        dOut' = [dOut EXCEPT !.secret_key = k]
    /\ UNCHANGED <<now, storage, usedIds, usedSalts, req, dIn>>

\* decrypt(token, passphrase2, salt2)
CipherDecrypt ==
    /\ dOut.step = 1
    /\ dOut' = [dOut EXCEPT
                   !.step = 2,
                   !.key2 = passphrase_to_key(dIn.passphrase2, dIn.salt2),
                   !.result = decrypt(dOut.token, dIn.passphrase2, dIn.salt2)]
    /\ UNCHANGED <<now, storage, usedIds, usedSalts, req, dIn>>

NextCipher == CipherEncrypt \/ CipherSettings \/ CipherDecrypt

SpecCipher == InitCipher /\ [][NextCipher]_vars

----------------------------------------------------------------------------
(* End to end: one submission of the create form with a given payload and
   passphrase, followed by reveals served one at a time *)

\* "", "hi", e-acute, CJK and emoji; a payload with a leading space, with
\* a trailing newline, of whitespace only, with a null character; "a" and
\* e-acute repeated up to and just over max_size bytes; max_size bytes
\* followed by a newline.
E2ETexts ==
    {EmptyStr, Str(<<104, 105>>), Str(<<233>>),
     Str(<<20320, 22909, 32, 127757>>),
     Str(<<32, 104, 105>>), Str(<<104, 105, 10>>), Str(<<32>>),
     Str(<<97, 0, 98>>),
     <<Run(<<97>>, max_size)>>, <<Run(<<97>>, max_size + 1)>>,
     <<Run(<<233>>, max_size \div 2)>>,
     <<Run(<<233>>, (max_size \div 2) + 1)>>,
     <<Run(<<97>>, 1), Run(<<233>>, max_size \div 2)>>,
     <<Run(<<97>>, max_size), Run(<<10>>, 1)>>}

E2EIdleOut ==
    [step |-> 0, valid |-> FALSE, errors |-> {}, oid |-> <<>>,
     row |-> {}]

InitE2E ==
    /\ now = 0
    /\ storage = {}
    /\ usedIds = {}
    /\ usedSalts = {}
    /\ req = [r \in Reqs |-> Idle]
    /\ dIn \in [data : E2ETexts, passphrase : Passphrases \cup {""}]
    /\ dOut = E2EIdleOut

\* A view that saves whatever the form holds, valid or not
form_valid_called_always(form) == TRUE

\* ProcessFormView.post: form_valid (and with it form.save()) is called
\* only when form.is_valid().
form_valid_called(form) == form.valid

\* SecretCreateView.post: form.is_valid(), then form.save() or the form
\* again with its errors.
SecretCreateView_post ==
    /\ dOut.step = 0
    /\ LET form == SecretCreateForm_is_valid(dIn.data, dIn.passphrase) IN
        IF form_valid_called(form)
        THEN \E id \in uuid4, salt \in generate_salt, iv \in IVs :
                LET row == Row(id, encrypt(form.data, form.passphrase,
                                           salt, iv), salt, now)
                IN  /\ storage' = storage \cup {row}
                    /\ usedIds' = usedIds \cup {id}
                    /\ usedSalts' = usedSalts \cup {salt}
                    /\ dOut' = [step |-> 1, valid |-> form.valid,
                                errors |-> form.errors,
                                oid |-> Token[id], row |-> {row}]
        ELSE /\ dOut' = [dOut EXCEPT !.step = 1, !.errors = form.errors]
             /\ UNCHANGED <<storage, usedIds, usedSalts>>
    /\ UNCHANGED <<now, req, dIn>>

NextE2E ==
    \/ Tick
    \/ SecretCreateView_post
    \/ NoneInFlight /\ \E r \in Reqs : Reveal(r)
    \/ \E r \in Reqs : Step(r)

SpecE2E == InitE2E /\ [][NextE2E]_vars

\* Creation alone: a record may already be stored when the form is
\* submitted.
NextCreate ==
    \/ Tick
    \/ usedIds = {} /\ dOut.step = 0 /\ Create
    \/ SecretCreateView_post

SpecCreate == InitE2E /\ [][NextCreate]_vars

----------------------------------------------------------------------------
(* The derivation laboratory: creates and reveals interleave, and the
   create is taken in two steps, so that a create can be inside
   passphrase_to_key while reveals run. The clock stands still. *)

DeriveIdleIn == [data |-> EmptyStr, passphrase |-> ""]

InitDerive ==
    /\ now = 0
    /\ storage = {}
    /\ usedIds = {}
    /\ usedSalts = {}
    /\ req = [r \in Reqs |-> Idle]
    /\ dIn = DeriveIdleIn
    /\ dOut = [step |-> 0]

\* The callers of passphrase_to_key: each request slot, and the create.
Callers == Reqs \cup {"create"}

\* Caller c is inside passphrase_to_key: a reveal between its lookup and
\* the end of clean_passphrase, a create between the submission and the
\* insert.
Deriving(c) == IF c = "create" THEN dOut.step = 1 ELSE req[c].pc = "form"

\* A derivation under a process-wide lock, held while deriving
passphrase_to_key_lock_global(deriving) == deriving

\* Whether a caller inside passphrase_to_key holds a lock: the function
\* builds a PBKDF2HMAC object of its own and touches nothing shared.
passphrase_to_key_lock(deriving) == FALSE

\* No other caller holds a lock that c would wait for.
Free(c) == \A o \in Callers \ {c} : ~passphrase_to_key_lock(Deriving(o))

\* The create form was submitted and is valid; save() starts.
CreateBegin ==
    /\ dOut.step = 0
    /\ uuid4 # {} /\ generate_salt # {}
    /\ \E data \in Plaintexts, passphrase \in Passphrases :
           dIn' = [data |-> data, passphrase |-> passphrase]
    /\ dOut' = [step |-> 1]
    /\ UNCHANGED <<now, storage, usedIds, usedSalts, req>>

\* save() ends: the key was derived, the data sealed, the row inserted.
CreateEnd ==
    /\ dOut.step = 1
    /\ \E id \in uuid4, salt \in generate_salt, iv \in IVs :
        /\ storage' = storage \cup
               {Row(id, encrypt(dIn.data, dIn.passphrase, salt, iv),
                    salt, now)}
        /\ usedIds' = usedIds \cup {id}
        /\ usedSalts' = usedSalts \cup {salt}
    /\ dIn' = DeriveIdleIn
    /\ dOut' = [step |-> 0]
    /\ UNCHANGED <<now, req>>

NextDerive ==
    \/ Free("create") /\ CreateBegin
    \/ Free("create") /\ CreateEnd
    \/ \E r \in Reqs : Free(r) /\ Reveal(r)
    \/ \E r \in Reqs : Free(r) /\ Step(r)

\* Request r2 is served by a worker of its own, which keeps running; the
\* other callers may take any time, or for ever.
SpecDerive ==
    InitDerive /\ [][NextDerive]_vars /\ WF_vars(Free("r2") /\ Step("r2"))

----------------------------------------------------------------------------
(* The codec laboratory: one call of encode_id (followed by decode_id of
   its result) or of decode_id, on a UUID, a UUID's string form, or any
   string a client may send *)

\* How many pseudo-random UUIDs are tried, besides the two extreme ones.
NumUuids == 5

UuidSamples ==
    {RandomBytes(UuidLen, k) : k \in 0..NumUuids}
        \cup {[i \in 1..UuidLen |-> 0], [i \in 1..UuidLen |-> 255]}

\* str.upper() of a hex digit
UpperHex(c) ==
    CASE c = "a" -> "A" [] c = "b" -> "B" [] c = "c" -> "C"
      [] c = "d" -> "D" [] c = "e" -> "E" [] c = "f" -> "F"
      [] OTHER -> c

\* The string forms of a UUID: str(u), and the same in upper case.
UuidStrings ==
    {UuidStr(u) : u \in UuidSamples}
        \cup {[i \in 1..Len(UuidStr(u)) |-> UpperHex(UuidStr(u)[i])] :
                  u \in UuidSamples}

\* The characters the route ^(?P<oid>[a-zA-Z0-9\-_]+)/$ lets through.
RouteChars == {UrlSafeChar(StdAlphabet[i]) : i \in 1..Len(StdAlphabet)}
RouteMatches(s) == Len(s) >= 1 /\ \A i \in 1..Len(s) : s[i] \in RouteChars

\* The token with its last character replaced by the next of the alphabet:
\* the same 128 bits, with two of the four spare bits set.
NextLast(t) ==
    [t EXCEPT ![Len(t)] =
        UrlSafeChar(Sextet((IndexOf(StdChar(t[Len(t)])) + 1) % 64))]

\* Strings built around a token: the token itself, with explicit padding,
\* with characters outside the alphabet, cut short, too long, non-ASCII.
Around(t) ==
    {t, NextLast(t),
     t \o <<"=", "=">>, t \o <<"=">>, <<"=">> \o t \o <<"=">>,
     t \o <<"!">>, t \o <<"!", "!", "!", "!">>,
     SubSeq(t, 1, 11) \o <<"!", "!", "!", "!">> \o SubSeq(t, 12, Len(t)),
     SubSeq(t, 1, Len(t) - 1), SubSeq(t, 1, Len(t) - 2),
     t \o <<"A">>, t \o <<"A", "A">>, t \o <<"A", "A", "A", "A">>,
     t \o <<NonAscii>>}

\* The strings of the test suite that are no token.
NoTokens ==
    {<<>>,
     <<"i", "n", "v", "a", "l", "i", "d", "!", "!", "!", "!">>,
     <<"n", "o", "t", "-", "v", "a", "l", "i", "d", "-", "b", "a", "s", "e",
       "6", "4", "!">>,
     <<"i", "n", "v", "a", "l", "i", "d", "-", "o", "i", "d">>}

DecodeInputs ==
    UNION {Around(encode_id(u)) : u \in UuidSamples} \cup NoTokens

CodecIdleOut ==
    [called |-> FALSE, encoded |-> <<>>, encodedOther |-> <<>>,
     decoded |-> None, raised |-> ""]

InitCodec ==
    /\ now = 0
    /\ storage = {}
    /\ usedIds = {}
    /\ usedSalts = {}
    /\ req = [r \in Reqs |-> Idle]
    /\ \/ dIn \in [fn : {"encode_id"}, arg : UuidSamples, other : UuidSamples]
       \/ \E str \in UuidStrings :
              dIn = [fn |-> "encode_id_str", arg |-> str, other |-> str]
       \/ \E str \in DecodeInputs :
              dIn = [fn |-> "decode_id", arg |-> str, other |-> str]
    /\ dOut = CodecIdleOut

\* encode_id(u) for two UUIDs, and decode_id of the first token.
CodecEncode ==
    /\ ~dOut.called
    /\ dIn.fn = "encode_id"
    /\ dOut' = [called |-> TRUE,
                encoded |-> encode_id(dIn.arg),
                encodedOther |-> encode_id(dIn.other),
                decoded |-> decode_id(encode_id(dIn.arg)),
                raised |-> decode_id_raises(encode_id(dIn.arg))]
    /\ UNCHANGED <<now, storage, usedIds, usedSalts, req, dIn>>

\* encode_id(str(u)), and decode_id of the token.
CodecEncodeStr ==
    /\ ~dOut.called
    /\ dIn.fn = "encode_id_str"
    /\ dOut' = [called |-> TRUE,
                encoded |-> encode_id_str(dIn.arg),
                encodedOther |-> encode_id_str(dIn.other),
                decoded |-> decode_id(encode_id_str(dIn.arg)),
                raised |-> decode_id_raises(encode_id_str(dIn.arg))]
    /\ UNCHANGED <<now, storage, usedIds, usedSalts, req, dIn>>

\* decode_id(s) for any string, and encode_id of the UUID it returned.
CodecDecode ==
    /\ ~dOut.called
    /\ dIn.fn = "decode_id"
    /\ dOut' = [called |-> TRUE,
                encoded |-> IF decode_id(dIn.arg) = None THEN <<>>
                            ELSE encode_id(decode_id(dIn.arg)),
                encodedOther |-> <<>>,
                decoded |-> decode_id(dIn.arg),
                raised |-> decode_id_raises(dIn.arg)]
    /\ UNCHANGED <<now, storage, usedIds, usedSalts, req, dIn>>

NextCodec == CodecEncode \/ CodecEncodeStr \/ CodecDecode

SpecCodec == InitCodec /\ [][NextCodec]_vars

----------------------------------------------------------------------------
(* Vocabulary of the properties *)

\* The passphrase and the plaintext a row was created with.
CreatedWith(row) == row.data.bytes.key.pass
PlainOf(row) ==
    CHOOSE p \in Plaintexts : Utf8Encode(p) = row.data.bytes.plain

Age(row) == now - row.created_at

\* The stored rows a token names.
RowsOf(oid) == {row \in storage : row.id = decode_id(oid)}

\* Request r has been answered.
Answered(r) == req[r].pc = "done"

\* Request r was answered after its lookup found a row.
AnsweredOn(r) == Answered(r) /\ req[r].obj # {}

\* This step is request r's arrival and lookup.
LookupStep(r) == req[r].pc = "idle" /\ req'[r].pc # "idle"

\* This step is request r's expiry re-check and delete in form_valid.
DeleteStep(r) == req[r].pc = "valid" /\ req'[r].pc # "valid"

\* This step answers request r with WrongPassphrase.
WrongPassphraseStep(r) ==
    req[r].pc = "form" /\ req'[r].pc = "done" /\ IsWrongPassphrase(req'[r])

----------------------------------------------------------------------------
(* C1. One-time read. With requests served one at a time: a reveal that
   names the token of a stored record inside its window finds the record;
   a reveal that found the record, supplied the passphrase it was created
   with and was answered inside the window was answered with the record's
   plaintext; and a reveal that arrives once the plaintext of a token has
   been handed out is answered 404, whatever its passphrase. *)

C1_FirstCorrectRevealSucceeds ==
    \A r \in Reqs :
        /\ Answered(r) /\ req[r].obj = {} =>
               \A row \in RowsOf(req[r].oid) : ~(Age(row) < ExpireMinutes)
        /\ AnsweredOn(r)
             /\ req[r].passphrase = CreatedWith(TheObj(req[r]))
             /\ Age(TheObj(req[r])) < ExpireMinutes
           => /\ IsPlaintext(req[r])
              /\ req[r].response.text = PlainOf(TheObj(req[r]))

C1_LaterRevealNotFound ==
    \A r, first \in Reqs :
        /\ LookupStep(r)
        /\ Answered(first) /\ IsPlaintext(req[first])
        /\ req'[r].oid = req[first].oid
        => Answered(r)' /\ IsNotFound(req'[r])

\* C1: the first correct reveal inside the window returns the plaintext and
\* every later reveal of the token returns NotFound.
C1_OneTimeRead ==
    [](C1_FirstCorrectRevealSucceeds) /\ [][C1_LaterRevealNotFound]_vars

\* One slot shows the plaintext of a token, the other a 404 for it.
C1_Witness ==
    \E r, later \in Reqs :
        /\ Answered(r) /\ IsPlaintext(req[r])
        /\ Answered(later) /\ IsNotFound(req[later])
        /\ req[later].oid = req[r].oid

----------------------------------------------------------------------------
(* C2. Concurrent reveal: of two reveals of one token, at most one is
   answered with the plaintext. *)

\* C2: no two answered reveals of one token both carry the plaintext.
C2_AtMostOnePlaintext ==
    \A r1, r2 \in Reqs :
        /\ r1 # r2
        /\ Answered(r1) /\ IsPlaintext(req[r1])
        /\ Answered(r2) /\ IsPlaintext(req[r2])
        => req[r1].oid # req[r2].oid

----------------------------------------------------------------------------
(* C3. Deletion before plaintext: whenever a request is about to render, or
   has been answered with, the plaintext of a record, no row with that
   record's id is in storage. *)

\* C3: plaintext in hand implies the row is gone from storage.
C3_DeletedBeforePlaintext ==
    \A r \in Reqs :
        req[r].pc = "render" \/ (Answered(r) /\ IsPlaintext(req[r]))
        => \A row \in storage : row.id # TheObj(req[r]).id

C3_Witness ==
    \E r \in Reqs :
        /\ Answered(r) /\ IsPlaintext(req[r])
        /\ req[r].response.text = PlainOf(TheObj(req[r]))

----------------------------------------------------------------------------
(* C4. Wrong-passphrase non-destruction. With requests served one at a
   time: a reveal that found the record and supplied another passphrase
   than the one it was created with is answered WrongPassphrase, without
   plaintext; the step that answers so changes no row and the row it
   looked up is still stored, field for field; and a reveal answered
   inside the window with the right passphrase, while another slot shows
   a WrongPassphrase for the same token, is answered with the plaintext. *)

C4_WrongPassphraseAnswer ==
    \A r \in Reqs :
        /\ AnsweredOn(r) /\ req[r].passphrase # CreatedWith(TheObj(req[r]))
           => IsWrongPassphrase(req[r]) /\ req[r].response.text = EmptyStr
        /\ \A f \in Reqs :
              /\ Answered(f) /\ IsWrongPassphrase(req[f])
              /\ AnsweredOn(r) /\ req[r].oid = req[f].oid
              /\ req[r].passphrase = CreatedWith(TheObj(req[r]))
              /\ Age(TheObj(req[r])) < ExpireMinutes
              => IsPlaintext(req[r])

C4_RecordUntouched ==
    \A r \in Reqs :
        /\ LookupStep(r) => storage' = storage
        /\ WrongPassphraseStep(r) =>
               storage' = storage /\ TheObj(req[r]) \in storage'

----------------------------------------------------------------------------
(* C5. No plaintext without the passphrase: a request that holds decrypted
   text, or has been answered with plaintext, supplied the passphrase the
   record was created with, and the text is that record's. *)

----------------------------------------------------------------------------
(* C6. Expiration: a reveal that arrives when the record its token names
   is older than 10 minutes is answered 404, whatever its passphrase, and
   a reveal that arrives at the record's creation instant finds it. *)

C6_ExpiredLookup ==
    \A r \in Reqs :
        LookupStep(r) =>
            \A row \in RowsOf(req'[r].oid) :
                /\ Age(row) > ExpireMinutes =>
                       Answered(r)' /\ IsNotFound(req'[r])
                         /\ req'[r].response.text = EmptyStr
                /\ Age(row) = 0 => req'[r].obj = {row}

\* C6: every lookup step treats an expired row as not found and a row at
\* its creation instant as found.
C6_Expiration == [][C6_ExpiredLookup]_vars

\* A 404 for the token of a row that is stored, expired, and was named
\* with the passphrase it was created with.
C6_Witness ==
    \E r \in Reqs :
        /\ Answered(r) /\ IsNotFound(req[r])
        /\ \E row \in RowsOf(req[r].oid) :
              /\ Age(row) > ExpireMinutes
              /\ req[r].passphrase = CreatedWith(row)

----------------------------------------------------------------------------
(* C7. Visibility: a stored row is in the available lookup if and only if
   its age is strictly less than 10 minutes (consumed rows are not stored
   at all). *)

\* C7: visible iff age < 10 minutes.
C7_VisibleIffStrictlyInsideWindow ==
    \A row \in storage :
        row \in get_queryset <=> Age(row) < ExpireMinutes

----------------------------------------------------------------------------
(* C8. Expiry re-check at reveal: when form_valid runs on a record that
   passed the lookup and the passphrase check and is by now older than 10
   minutes, the request is answered 404 without plaintext and no row with
   the record's id remains in storage. *)

C8_RecheckStep ==
    \A r \in Reqs :
        DeleteStep(r) /\ Age(TheObj(req[r])) > ExpireMinutes
        => /\ Answered(r)' /\ IsNotFound(req'[r])
           /\ req'[r].response.text = EmptyStr
           /\ \A row \in storage' : row.id # TheObj(req[r]).id

\* C8: every form_valid step on an expired row answers 404 and deletes.
C8_ExpiryRecheck == [][C8_RecheckStep]_vars

C8_Witness ==
    \E r \in Reqs :
        /\ Answered(r)
        /\ req[r].response.http404 = "This secret has expired"
        /\ req[r].decrypted_data = PlainOf(TheObj(req[r]))

----------------------------------------------------------------------------
(* C9. No way back to Active: a reveal that arrives while a 404 for its
   token is on show is answered 404, and a record that is not available
   (consumed or expired) is not available in any later state. *)

Active(id) == \E row \in get_queryset : row.id = id

C9_Terminal ==
    /\ \A r, nf \in Reqs :
          /\ LookupStep(r)
          /\ Answered(nf) /\ IsNotFound(req[nf])
          /\ req'[r].oid = req[nf].oid
          => Answered(r)' /\ IsNotFound(req'[r])
    /\ \A id \in usedIds : ~Active(id) => ~Active(id)'

\* C9: NotFound is terminal for a token; unavailable stays unavailable.
C9_NoWayBack == [][C9_Terminal]_vars

\* Both slots show a 404 for the token of a record that is still stored,
\* one of them for a request with the right passphrase.
C9_Witness ==
    \E nf, r \in Reqs :
        /\ nf # r
        /\ Answered(nf) /\ IsNotFound(req[nf])
        /\ Answered(r) /\ IsNotFound(req[r])
        /\ req[r].oid = req[nf].oid
        /\ \E row \in RowsOf(req[r].oid) :
              req[r].passphrase = CreatedWith(row)

----------------------------------------------------------------------------
(* C10. Uniform fail-closed open: every call of decrypt returns text or
   raises InvalidToken, and the reveal form is valid or answers
   WrongPassphrase. *)

\* C10: decrypt fails only with InvalidToken; the form only with
\* WrongPassphrase.
C10_UniformFailure ==
    dOut.called =>
        /\ dOut.result.exc \in {"", "InvalidToken"}
        /\ dOut.form \in {"valid", "WrongPassphrase"}

----------------------------------------------------------------------------
(* C11. Token round-trip. For every 128-bit identifier x, decode_id of
   encode_id(x) is x; when x is given in its string form, the result is
   the UUID that string denotes, whose own string form is x in lower
   case. *)

DecodeCalled == dOut.called /\ dIn.fn = "decode_id"
EncodeCalled == dOut.called /\ dIn.fn = "encode_id"
EncodeStrCalled == dOut.called /\ dIn.fn = "encode_id_str"

\* C11: decode_id(encode_id(x)) = x, for x a UUID or a UUID's string form.
C11_TokenRoundTrip ==
    /\ EncodeCalled => dOut.decoded = dIn.arg
    /\ EncodeStrCalled =>
           /\ UUID(dIn.arg).ok
           /\ dOut.decoded = UUID(dIn.arg).bytes
           /\ UuidStr(dOut.decoded) = UuidStr(UUID(dIn.arg).bytes)
           /\ dIn.arg = UuidStr(UUID(dIn.arg).bytes) =>
                  UuidStr(dOut.decoded) = dIn.arg

C11_Witness ==
    /\ EncodeStrCalled
    /\ dIn.arg = UuidStr(RandomBytes(UuidLen, 1))
    /\ dOut.decoded = RandomBytes(UuidLen, 1)
    /\ Len(dOut.encoded) = 22

----------------------------------------------------------------------------
(* C12. decode_id is total on strings: whatever the string, no exception
   leaves it, and its result is a 16-byte identifier or None. *)

\* C12: decode_id never raises; it returns an identifier or None.
C12_DecodeTotal ==
    DecodeCalled =>
        /\ dOut.raised = ""
        /\ dOut.decoded = None \/ Len(dOut.decoded) = UuidLen

C12_Witness ==
    /\ DecodeCalled
    /\ \E i \in 1..Len(dIn.arg) : dIn.arg[i] = NonAscii
    /\ dOut.raised = ""
    /\ dOut.decoded = None

----------------------------------------------------------------------------
(* C13. decode_id rejects every non-token: a string that is not exactly
   22 characters of the URL-safe alphabet decodes to None. *)

IsToken(s) == Len(s) = 22 /\ RouteMatches(s)

\* C13: decode_id(s) = None unless s is 22 URL-safe characters.
C13_RejectsNonTokens ==
    DecodeCalled /\ ~IsToken(dIn.arg) => dOut.decoded = None

----------------------------------------------------------------------------
(* C14. encode_id is deterministic and injective, and its output is 22
   characters of the URL-safe alphabet, without "=", so it matches the
   route of the reveal URL. *)

\* C14: encode_id gives 22 URL-safe characters, equal for equal UUIDs,
\* different for different UUIDs.
C14_EncodeShape ==
    EncodeCalled \/ EncodeStrCalled =>
        /\ Len(dOut.encoded) = 22
        /\ RouteMatches(dOut.encoded)
        /\ \A i \in 1..Len(dOut.encoded) : dOut.encoded[i] # "="
        /\ dIn.arg = dIn.other <=> dOut.encoded = dOut.encodedOther

C14_Witness ==
    /\ EncodeCalled
    /\ dIn.arg # dIn.other
    /\ dOut.encoded # dOut.encodedOther
    /\ \E i \in 1..Len(dOut.encoded) : dOut.encoded[i] \in {"-", "_"}

----------------------------------------------------------------------------
(* C15. Cipher round-trip. decrypt of encrypt(p, passphrase, salt) with
   the same passphrase and salt returns p, as a str; and what encrypt
   returns is a non-empty str of base64 (printable ASCII) characters. *)

SameKeyInputs ==
    dIn.passphrase2 = dIn.passphrase /\ dIn.salt2 = dIn.salt

\* C15: decrypt(encrypt(p, k, s), k, s) = p as a str; encrypt's result is
\* a non-empty printable str.
C15_CipherRoundTrip ==
    /\ dOut.step >= 1 =>
           dOut.token.ascii /\ dOut.token.b64 /\ dOut.token.len > 0
    /\ dOut.step = 2 /\ SameKeyInputs =>
           /\ dOut.result.exc = ""
           /\ dOut.result.type = "str"
           /\ dOut.result.text = dIn.data

C15_Witness ==
    /\ dOut.step = 2
    /\ SameKeyInputs
    /\ dIn.data = Str(<<72, 105, 32, 19990, 30028, 32, 127757>>)
    /\ dOut.result.text = dIn.data
    /\ RunsLen(Utf8Encode(dIn.data)) = 14

----------------------------------------------------------------------------
(* C17. Wrong-key isolation. decrypt of encrypt(p, pass1, salt1) called
   with another passphrase or another salt raises InvalidToken and
   returns no text. *)

\* C17: a different passphrase or a different salt gives InvalidToken.
C17_WrongKeyIsolation ==
    dOut.step = 2 /\ ~SameKeyInputs =>
        /\ dOut.result.exc = "InvalidToken"
        /\ dOut.result.type = ""
        /\ dOut.result.text = EmptyStr

C17_Witness ==
    /\ dOut.step = 2
    /\ dIn.passphrase2 = dIn.passphrase
    /\ dIn.salt2 # dIn.salt
    /\ dIn.data # EmptyStr
    /\ dOut.result.exc = "InvalidToken"

----------------------------------------------------------------------------
(* C18. Key derivation is a pure function of (passphrase, salt): equal
   passphrase and salt give equal keys whatever the settings of the
   process at each call, and the same passphrase with different salts
   gives different keys. *)

----------------------------------------------------------------------------
(* C16. End-to-end round-trip. Whatever the payload p within the size
   limit and whatever the passphrase k, the create form stores a record;
   and a reveal of its token with k that finds the record and is answered
   inside the window is answered with exactly p. *)

\* The size of the payload as submitted, in UTF-8 bytes.
SubmittedSize == RunsLen(Utf8Encode(dIn.data))

\* Request r names the created record's token with the passphrase given
\* at creation, found the record, and was answered inside the window.
RevealedWithK(r) ==
    /\ dOut.step = 1 /\ dOut.valid
    /\ AnsweredOn(r)
    /\ req[r].oid = dOut.oid
    /\ req[r].passphrase = dIn.passphrase
    /\ Age(TheObj(req[r])) < ExpireMinutes

\* C16: reveal(create(p, k), k) = p for every p up to 50 KiB and every k.
C16_EndToEndRoundTrip ==
    /\ dOut.step = 1 /\ SubmittedSize <= max_size => dOut.valid
    /\ \A r \in Reqs :
           RevealedWithK(r) =>
               IsPlaintext(req[r]) /\ req[r].response.text = dIn.data

----------------------------------------------------------------------------
(* C19. Salt uniqueness. Any two records have different salts, different
   stored ciphertexts and different keys, also when created with the same
   passphrase and plaintext; and a record being created gets a salt, and
   with it a key, that no record created before it had, whether or not
   that record is still stored. *)

C19_StoredDistinct ==
    /\ \A row \in storage :
           row.salt \in usedSalts /\ row.data.bytes.key.salt = row.salt
    /\ \A r1, r2 \in storage :
           r1.id # r2.id =>
               /\ r1.salt # r2.salt
               /\ r1.data # r2.data
               /\ r1.data.bytes.key # r2.data.bytes.key

C19_CreateStep ==
    \A row \in storage' \ storage :
        row.salt \notin usedSalts /\ row.data.bytes.key.salt \notin usedSalts

----------------------------------------------------------------------------
(* C20. Size boundary. The create form accepts a payload of exactly
   51200 UTF-8 bytes and rejects, with a ValidationError on the data
   field and before anything is encrypted or stored, every payload of
   51201 bytes or more; what it stores is the whole payload. *)

\* C20: 51200 bytes accepted, 51201 or more rejected; bytes, not
\* characters; nothing stored on rejection; nothing cut off.
C20_SizeBoundary ==
    dOut.step = 1 =>
        /\ SubmittedSize = max_size /\ dIn.passphrase # "" => dOut.valid
        /\ SubmittedSize > max_size =>
               ~dOut.valid /\ "data" \in dOut.errors /\ storage = {}
        /\ dOut.valid =>
               \A row \in dOut.row :
                   row.data.bytes.plain = Utf8Encode(dIn.data)

----------------------------------------------------------------------------
(* C21. A rejected create persists nothing. When the create form fails
   validation (payload too large, empty payload, empty passphrase), the
   stored records after the call are exactly those before it. *)

\* This step is the submission of the create form.
PostStep == dOut.step = 0 /\ dOut'.step = 1

\* The submission holds one of the three faults after cleaning.
Faulty ==
    \/ strip(dIn.data) = EmptyStr
    \/ RunsLen(Utf8Encode(strip(dIn.data))) > max_size
    \/ dIn.passphrase = ""

C21_RejectedStep ==
    PostStep /\ (Faulty \/ ~dOut'.valid) =>
        /\ ~dOut'.valid
        /\ dOut'.errors # {}
        /\ storage' = storage
        /\ usedIds' = usedIds

\* C21: a create that fails validation leaves storage as it was.
C21_RejectedCreatePersistsNothing == [][C21_RejectedStep]_vars

\* A payload over the limit was rejected while a record was stored, and
\* the record is still there.
C21_Witness ==
    /\ dOut.step = 1
    /\ ~dOut.valid
    /\ dIn.data = <<Run(<<97>>, max_size + 1)>>
    /\ "data" \in dOut.errors
    /\ Cardinality(storage) = 1

----------------------------------------------------------------------------
(* C22. Malformed and unmatched tokens are indistinguishable. Of two
   answered reveals with the same passphrase, one naming a string that is
   no token and the other a well-formed token of no available record, the
   responses (status and the content of the Http404 get_object raised)
   are the same; and a lookup answered 404 changes no stored record. *)

\* The string is the token of some UUID.
WellFormed(oid) == oid \in {Token[id] : id \in DOMAIN Token}

C22_SameOutcome ==
    \A r1, r2 \in Reqs :
        /\ Answered(r1) /\ req[r1].oid \in MalformedOids
        /\ Answered(r2) /\ WellFormed(req[r2].oid) /\ req[r2].obj = {}
        /\ req[r1].passphrase = req[r2].passphrase
        => req[r1].response = req[r2].response

C22_NoStorageChange ==
    \A r \in Reqs :
        LookupStep(r) /\ IsNotFound(req'[r]) => storage' = storage

\* C22: a malformed token and an unmatched token get the same answer, and
\* neither changes storage.
C22_Indistinguishable ==
    [](C22_SameOutcome) /\ [][C22_NoStorageChange]_vars

----------------------------------------------------------------------------
(* C23. Stored fields are immutable. Every step, a create or any step of
   a reveal (successful, failed, or on another record), leaves each row
   it keeps exactly as it was: a row of the new storage is a row of the
   old one, field for field, or a row just inserted under an id that
   never occurred; and a row that is no longer there is gone altogether,
   no row of its id remains. *)

C23_Step ==
    /\ \A row \in storage' : row \in storage \/ row.id \notin usedIds
    /\ \A row \in storage :
           row \notin storage' => \A kept \in storage' : kept.id # row.id

\* C23: the only change a stored record undergoes is deletion.
C23_StoredFieldsImmutable == [][C23_Step]_vars

\* A record created at 0 is still stored, unchanged in age, after one
\* reveal failed on it and another record was consumed.
C23_Witness ==
    \E row \in storage, r1, r2 \in Reqs :
        /\ Age(row) = now /\ now >= TickMinutes
        /\ Answered(r1) /\ IsWrongPassphrase(req[r1]) /\ req[r1].obj = {row}
        /\ Answered(r2) /\ IsPlaintext(req[r2]) /\ req[r2].obj # {row}

----------------------------------------------------------------------------
(* C24. Identifier uniqueness. Two different stored rows have different
   ids and different tokens, the token of an id is the token of no other
   id, and a row just inserted has an id that no earlier record had,
   consumed and expired ones included. *)

C24_DistinctIds ==
    /\ \A a, b \in storage :
           a # b => a.id # b.id /\ Token[a.id] # Token[b.id]
    /\ \A a, b \in DOMAIN Token : a # b => Token[a] # Token[b]
    /\ \A row \in storage : row.id \in usedIds

C24_CreateStep ==
    \A row \in storage' \ storage :
        /\ row.id \notin usedIds
        /\ row.id \in usedIds'

----------------------------------------------------------------------------
(* C25. A successful create adds exactly one record. When the create
   form is valid, the step adds one row and keeps every other row as it
   was; the new row has an id and a salt that never occurred, a salt of
   16 bytes, created_at equal to the clock at the insert, and data equal
   to encrypt of the form's cleaned data under the submitted passphrase
   and that salt; the token shown is the token of the new row. *)

C25_CreateStep ==
    PostStep /\ dOut'.valid =>
        \E row \in storage' :
            /\ row \notin storage
            /\ storage' = storage \cup {row}
            /\ Cardinality(storage') = Cardinality(storage) + 1
            /\ row.id \notin usedIds
            /\ row.salt \notin usedSalts
            /\ Len(row.salt) = SaltLen
            /\ row.created_at = now
            /\ \E iv \in IVs :
                   row.data = encrypt(strip(dIn.data), dIn.passphrase,
                                      row.salt, iv)
            /\ dOut'.oid = Token[row.id]

----------------------------------------------------------------------------
(* C26. Expiry is enforced only at query time. As stated: a stored row
   older than 10 minutes is not in the available lookup, and no step
   removes it from storage. *)

Expired(row) == Age(row) > ExpireMinutes

C26_Excluded == \A row \in storage : Expired(row) => row \notin get_queryset

C26_KeptStep == \A row \in storage : Expired(row) => row \in storage'

\* C26 as stated: an expired row is excluded from the lookup and stays in
\* storage whatever happens afterwards.
C26_ExpiredNeverRemoved == [](C26_Excluded) /\ [][C26_KeptStep]_vars

(* C26 as the code has it: a stored row older than 10 minutes is not in
   the available lookup; a lookup step, failed or not, changes no stored
   row; and the only step that removes an expired row is the form_valid
   step of a request that had found the row, which answers 404. *)

C26_LookupStep == \A r \in Reqs : LookupStep(r) => storage' = storage

C26_RemovedStep ==
    \A row \in storage :
        Expired(row) /\ row \notin storage' =>
            \E r \in Reqs :
                /\ DeleteStep(r) /\ req[r].obj = {row}
                /\ Answered(r)' /\ IsNotFound(req'[r])

\* C26, amended: expiry is enforced by the lookup and by the re-check of
\* form_valid, and only the re-check removes an expired row.
C26_ExpiredRemovedOnlyByRecheck ==
    /\ [](C26_Excluded)
    /\ [][C26_LookupStep /\ C26_RemovedStep]_vars

\* One slot shows the 404 of a lookup that failed on the expired record,
\* the other the 404 of the re-check that then removed it.
C26_Witness ==
    \E r1, r2 \in Reqs :
        /\ Answered(r1)
        /\ req[r1].response.http404 = "This secret has expired"
        /\ TheObj(req[r1]) \notin storage
        /\ Answered(r2) /\ req[r2].oid = req[r1].oid
        /\ req[r2].response.http404 = "No secret found matching the query"

----------------------------------------------------------------------------
(* C27. Records are independent. With requests interleaving freely: any
   step of a reveal on token A keeps every stored row of another token
   as it was, and available if it was available; every stored row opens
   under the passphrase it was created with, to its own plaintext; and a
   reveal answered with a plaintext was answered with the plaintext of
   the row its own token names. *)

C27_OthersKeptStep ==
    \A r \in Reqs :
        req'[r] # req[r] /\ req'[r].pc # "idle" =>
            \A row \in storage :
                Token[row.id] # req'[r].oid =>
                    /\ row \in storage'
                    /\ row \in get_queryset => row \in get_queryset'

C27_OwnPlaintext ==
    /\ \A row \in storage :
          LET c == clean_passphrase(row, CreatedWith(row)) IN
              c.valid /\ c.decrypted_data = PlainOf(row)
    /\ \A r \in Reqs :
          Answered(r) /\ IsPlaintext(req[r]) =>
              /\ Token[TheObj(req[r]).id] = req[r].oid
              /\ req[r].response.text = PlainOf(TheObj(req[r]))

\* C27: a reveal touches no record but its own, and shows its own text.
C27_RecordsIndependent ==
    [](C27_OwnPlaintext) /\ [][C27_OthersKeptStep]_vars

\* Two records with different texts were both revealed, each to the
\* request that named its token.
C27_Witness ==
    \E r1, r2 \in Reqs :
        /\ Answered(r1) /\ IsPlaintext(req[r1])
        /\ Answered(r2) /\ IsPlaintext(req[r2])
        /\ req[r1].oid # req[r2].oid
        /\ req[r1].response.text # req[r2].response.text

----------------------------------------------------------------------------
(* C28. Key derivation holds no lock. While a create or a reveal is
   inside passphrase_to_key, every other caller has a step it can take: a
   free slot can start a reveal, a reveal in flight can take its next
   step, a create can start or finish; a step of one caller changes
   nothing of another caller's request; and a reveal in flight whose
   worker keeps running is answered, whether or not the other callers
   ever leave their derivation. *)

CanStep(c) ==
    IF c = "create"
    THEN IF dOut.step = 1
         THEN ENABLED (Free(c) /\ CreateEnd)
         ELSE uuid4 # {} /\ generate_salt # {} =>
                  ENABLED (Free(c) /\ CreateBegin)
    ELSE IF req[c].pc = "idle"
         THEN ENABLED (Free(c) /\ Reveal(c))
         ELSE ENABLED (Free(c) /\ Step(c))

C28_NoneWaits ==
    \A d \in Callers :
        Deriving(d) => \A c \in Callers \ {d} : CanStep(c)

C28_OwnStep ==
    \A r \in Reqs :
        req'[r] # req[r] =>
            /\ \A o \in Reqs \ {r} : req'[o] = req[o]
            /\ dOut' = dOut

C28_RunsToCompletion ==
    req["r2"].pc \in {"form", "valid", "render"} ~> Answered("r2")

----------------------------------------------------------------------------
(* C29. The three expiry computations agree. At every clock reading and
   for every stored row, the available lookup accepts the row if and only
   if the re-check of form_valid does not treat it as expired, if and
   only if the clock is not later than the row's expire_at. *)

----------------------------------------------------------------------------
(* C30. Tokens are canonical. Whenever decode_id returns an identifier
   for a string, encode_id of that identifier is the string itself; in
   particular for the strings the reveal route lets through. *)

\* C30: encode_id(decode_id(t)) = t whenever decode_id(t) is not None.
C30_TokensCanonical ==
    DecodeCalled /\ dOut.decoded # None => dOut.encoded = dIn.arg

====
